---- MODULE Spec2Model ----
(***************************************************************************)
(* A model of app.py, the S3 -> Snowflake Lambda loader:                   *)
(*   parse_s3_event, read_json_from_s3, load_to_snowflake, lambda_handler. *)
(*                                                                         *)
(* Three specifications share the variables:                               *)
(*   Spec        one invocation of lambda_handler against the warehouse;   *)
(*   SpecConc    two invocations of lambda_handler running concurrently    *)
(*               against the same warehouse schema;                        *)
(*   SpecDecode  the record decoder of read_json_from_s3 applied to every  *)
(*               text up to MaxLen symbols.                                *)
(***************************************************************************)
EXTENDS Integers, Sequences, FiniteSets, TLC

\* ------------------------------------------------------------------ bounds

\* Longest object text, in symbols, that SpecDecode enumerates.
MaxLen == 5

\* Most notification records in the event of an invocation.
MaxRecords == 2

\* ------------------------------------------------- texts and json.loads

\* A text is a sequence of symbols.  "o" stands for one JSON object literal
\* written without a line break, "x" for a symbol that starts no JSON value;
\* "[", "]", "," are JSON's own, " " and "\n" are whitespace.
Symbols == {"o", "[", "]", ",", " ", "\n", "x"}

Whitespace == {" ", "\n"}

RECURSIVE TextsUpTo(_)
TextsUpTo(n) ==
    IF n = 0 THEN {<<>>}
    ELSE LET shorter == TextsUpTo(n - 1)
         IN  shorter \cup {Append(t, c) : t \in {u \in shorter : Len(u) = n - 1}, c \in Symbols}

\* Parsed JSON values: an object, or an array of values.
JObject == [t |-> "obj", items |-> <<>>]

JArray(items) == [t |-> "arr", items |-> items]

ScanFail == [ok |-> FALSE, val |-> JObject, end |-> 0]

\* The first position at or after i that holds no whitespace (Len(s)+1 when
\* there is none): json.decoder's WHITESPACE.match(s, i).end().
RECURSIVE SkipWs(_, _)
SkipWs(s, i) ==
    IF i <= Len(s) /\ s[i] \in Whitespace THEN SkipWs(s, i + 1) ELSE i

\* json.scanner's scan_once and JSONArray: a value starting exactly at i.
RECURSIVE ScanOnce(_, _)
RECURSIVE ScanElements(_, _, _)
ScanElements(s, i, acc) ==
    LET r == ScanOnce(s, i)
    IN  IF ~r.ok THEN ScanFail
        ELSE LET k == SkipWs(s, r.end)
             IN  IF k > Len(s) THEN ScanFail
                 ELSE IF s[k] = "]"
                      THEN [ok |-> TRUE, val |-> JArray(Append(acc, r.val)), end |-> k + 1]
                 ELSE IF s[k] = ","
                      THEN ScanElements(s, SkipWs(s, k + 1), Append(acc, r.val))
                 ELSE ScanFail

ScanOnce(s, i) ==
    IF i > Len(s) THEN ScanFail
    ELSE IF s[i] = "o" THEN [ok |-> TRUE, val |-> JObject, end |-> i + 1]
    ELSE IF s[i] = "["
         THEN LET j == SkipWs(s, i + 1)
              IN  IF j <= Len(s) /\ s[j] = "]"
                  THEN [ok |-> TRUE, val |-> JArray(<<>>), end |-> j + 1]
                  ELSE ScanElements(s, j, <<>>)
    ELSE ScanFail

\* json.loads(s): one value with whitespace allowed around it and nothing else;
\* ok = FALSE stands for json.JSONDecodeError.
json_loads(s) ==
    LET r == ScanOnce(s, SkipWs(s, 1))
    IN  IF r.ok /\ SkipWs(s, r.end) = Len(s) + 1
        THEN [ok |-> TRUE, val |-> r.val]
        ELSE [ok |-> FALSE, val |-> JObject]

\* str.strip(): the text without its leading and trailing whitespace.
RECURSIVE rstrip(_)
rstrip(s) ==
    IF Len(s) > 0 /\ s[Len(s)] \in Whitespace THEN rstrip(SubSeq(s, 1, Len(s) - 1)) ELSE s

strip(s) == rstrip(SubSeq(s, SkipWs(s, 1), Len(s)))

\* str.split("\n"): the pieces between line breaks, empty pieces kept.
RECURSIVE split(_)
split(s) ==
    IF \E i \in 1..Len(s) : s[i] = "\n"
    THEN LET i == CHOOSE j \in 1..Len(s) : s[j] = "\n" /\ \A k \in 1..(j - 1) : s[k] # "\n"
         IN  <<SubSeq(s, 1, i - 1)>> \o split(SubSeq(s, i + 1, Len(s)))
    ELSE <<s>>

\* The lines the fallback parses: those of content.strip() that are not blank.
NonBlankLines(content) == SelectSeq(split(strip(content)), LAMBDA line : strip(line) # <<>>)

\* The fallback of read_json_from_s3 taken first: every text is split into lines.
DecodeLinesFirst(content) ==
    LET lines == NonBlankLines(content)
        parsed == [k \in 1..Len(lines) |-> json_loads(lines[k])]
    IN  IF \A k \in 1..Len(lines) : parsed[k].ok
        THEN [ok |-> TRUE, path |-> "lines", records |-> [k \in 1..Len(lines) |-> parsed[k].val]]
        ELSE [ok |-> FALSE, path |-> "lines", records |-> <<>>]

\* The decoding half of read_json_from_s3: the whole text as one document, and
\* only on JSONDecodeError each non-blank line as a document of its own.
DecodeRecords(content) ==
    LET data == json_loads(content)
    IN  IF data.ok
        THEN [ok |-> TRUE, path |-> "document",
              records |-> IF data.val.t = "arr" THEN data.val.items ELSE <<data.val>>]
        ELSE LET lines == NonBlankLines(content)
                 parsed == [k \in 1..Len(lines) |-> json_loads(lines[k])]
             IN  IF \A k \in 1..Len(lines) : parsed[k].ok
                 THEN [ok |-> TRUE, path |-> "lines",
                       records |-> [k \in 1..Len(lines) |-> parsed[k].val]]
                 ELSE [ok |-> FALSE, path |-> "lines", records |-> <<>>]

\* ------------------------------------------------------ parse_s3_event

\* An object key as the notification carries it: a sequence of pieces, where
\* "+" and "%2B" are the encoded forms urllib.parse.unquote_plus rewrites.
unquote_plus(key) ==
    [k \in 1..Len(key) |-> IF key[k] = "+" THEN " " ELSE IF key[k] = "%2B" THEN "+" ELSE key[k]]

\* record.get("s3", {}).get("bucket", {}).get("name") of a record without one.
None == "None"

\* `if bucket and key`: a bucket name that is neither None nor "", a key that
\* is not empty.
TruthyName(bucket) == bucket # None /\ bucket # ""

TruthyKey(key) == key # <<>>

\* The notification records the events are built from: two well-formed S3
\* records (one with an encoded key), one without a bucket name, one with an
\* empty bucket name, one without a key (the code's default ""), one of another
\* event source.
NotificationRecords ==
    { [eventSource |-> "aws:s3",  bucket |-> "landing", key |-> <<"a">>],
      [eventSource |-> "aws:s3",  bucket |-> "landing", key |-> <<"a", "%2B", "b">>],
      [eventSource |-> "aws:s3",  bucket |-> None,      key |-> <<"a">>],
      [eventSource |-> "aws:s3",  bucket |-> "",        key |-> <<"a">>],
      [eventSource |-> "aws:s3",  bucket |-> "landing", key |-> <<>>],
      [eventSource |-> "aws:sns", bucket |-> "landing", key |-> <<"a">>] }

\* event.get("Records", []) of every event with at most n records.
RECURSIVE EventsUpTo(_)
EventsUpTo(n) ==
    IF n = 0 THEN {<<>>}
    ELSE LET shorter == EventsUpTo(n - 1)
         IN  shorter \cup {Append(e, r) : e \in {u \in shorter : Len(u) = n - 1},
                                          r \in NotificationRecords}

\* parse_s3_event without its eventSource test: every record with a bucket and a key.
RECURSIVE ParseAnySource(_)
ParseAnySource(recs) ==
    IF recs = <<>> THEN <<>>
    ELSE LET record == Head(recs)
             key == unquote_plus(record.key)
         IN  IF TruthyName(record.bucket) /\ TruthyKey(key)
             THEN <<[bucket |-> record.bucket, key |-> key]>> \o ParseAnySource(Tail(recs))
             ELSE ParseAnySource(Tail(recs))

RECURSIVE parse_s3_event(_)
parse_s3_event(recs) ==
    IF recs = <<>> THEN <<>>
    ELSE LET record == Head(recs)
             key == unquote_plus(record.key)
         IN  IF record.eventSource # "aws:s3" THEN parse_s3_event(Tail(recs))
             ELSE IF TruthyName(record.bucket) /\ TruthyKey(key)
                  THEN <<[bucket |-> record.bucket, key |-> key]>> \o parse_s3_event(Tail(recs))
             ELSE parse_s3_event(Tail(recs))

\* ------------------------------------------------------------------ state

Invocations == {1, 2}

VARIABLES
    s3_store,       \* the object store: what get_object finds under each key
    event,          \* per invocation: the event's Records
    pc,             \* per invocation: where lambda_handler stands
    s3_objects,     \* per invocation: parse_s3_event's result
    session,        \* per invocation: "None", "open" or "closed"
    pos,            \* per invocation: index of the loop's s3_obj in s3_objects
    records,        \* per invocation: read_json_from_s3's result for s3_obj
    total_records,  \* per invocation: the running total
    results,        \* per invocation: the FileResults so far
    response,       \* per invocation: the value lambda_handler returns
    rawExists,      \* warehouse: RAW_DATA exists
    RAW_DATA,       \* warehouse: the rows of RAW_DATA, oldest first
    RAW_DATA_STAGING, \* warehouse: [exists, rows] of the staging table
    acquired,       \* history: sessions get_snowpark_session returned
    closed,         \* history: calls of session.close()
    fetched,        \* history: positions whose object read_json_from_s3 asked for
    oplog,          \* history: the warehouse operations issued, in order
    rows_before,    \* history: RAW_DATA's row count when load_to_snowflake was entered
    content,        \* SpecDecode: the text to decode
    decoded         \* SpecDecode: what the decoder made of it

local == <<s3_store, event, pc, s3_objects, session, pos, records, total_records, results, response>>

warehouse == <<rawExists, RAW_DATA, RAW_DATA_STAGING>>

history == <<acquired, closed, fetched, oplog, rows_before>>

decoder == <<content, decoded>>

vars == <<local, warehouse, history, decoder>>

\* ------------------------------------------------------------ the values

\* source: f"s3://{bucket}/{key}".
Source(obj) == <<"s3://", obj.bucket, "/", obj.key>>

Row(source_file, payload) == [source_file |-> source_file, payload |-> payload]

\* The DataFrame of load_to_snowflake: one row per record, all labelled source_file.
DataFrame(recs, source_file) == [k \in 1..Len(recs) |-> Row(source_file, recs[k])]

\* Rows a warehouse may hold before the invocation starts.
PriorRow == Row(<<"s3://", "landing", "/", <<"old">>>>, JObject)

Absent == [exists |-> FALSE, rows |-> <<>>]

Table(rows) == [exists |-> TRUE, rows |-> rows]

SuccessResult(key, count) == [file |-> key, records |-> count, status |-> "success"]

FailedResult(key, msg) == [file |-> key, error |-> msg, status |-> "failed"]

NoResponse == [statusCode |-> 0, body |-> [pending |-> TRUE]]

\* session.close() raised inside `finally`: the handler returns nothing.
Raised == [statusCode |-> 0, body |-> [raised |-> "close"]]

NoFilesResponse == [statusCode |-> 200, body |-> [message |-> "No files to process"]]

SummaryResponse(total, files) ==
    [statusCode |-> 200,
     body |-> [message |-> "Data loaded via WIDF (keyless!)",
               authenticated_as |-> "current_user",
               total_records |-> total,
               files |-> files]]

ErrorResponse(msg) == [statusCode |-> 500, body |-> [error |-> msg]]

IsSummary(r) == r.statusCode = 200 /\ "files" \in DOMAIN r.body

\* The texts an object may hold: one record, two records on two lines, a line
\* that is no JSON, nothing at all.
SampleContents == { <<"o">>, <<"o", "\n", "o">>, <<"o", "\n", "x">>, <<>> }

\* What the store holds under a key: no object (get_object raises NoSuchKey),
\* or one of the texts.
NoSuchKey == [exists |-> FALSE, body |-> <<>>]

Stored(text) == [exists |-> TRUE, body |-> text]

\* The keys parse_s3_event can hand on, given NotificationRecords.
Keys == {unquote_plus(r.key) : r \in {n \in NotificationRecords : n.key # <<>>}}

Op(i, op, ok, rows) == [obj |-> pos[i], op |-> op, ok |-> ok, rows |-> rows]

Logged(i, op, ok, rows) == oplog' = [oplog EXCEPT ![i] = Append(@, Op(i, op, ok, rows))]

\* ------------------------------------------------- lambda_handler's steps

Set(v, i, x) == [v EXCEPT ![i] = x]

\* Leave the per-object try block for the next s3_obj, or for the summary.
AfterObject(i) == IF pos[i] < Len(s3_objects[i]) THEN "fetch" ELSE "summary"

\* The inner `except Exception`, written as a slip would: the failure ends the
\* invocation instead of being recorded.
ObjectFailedAborts(i, msg) ==
    /\ results' = results
    /\ total_records' = total_records
    /\ pos' = pos
    /\ response' = Set(response, i, ErrorResponse(msg))
    /\ pc' = Set(pc, i, "finally")

\* The inner `except Exception`: a "failed" FileResult, then the next object.
ObjectFailed(i, msg) ==
    /\ results' = Set(results, i, Append(results[i], FailedResult(s3_objects[i][pos[i]].key, msg)))
    /\ total_records' = total_records
    /\ pos' = Set(pos, i, pos[i] + 1)
    /\ response' = response
    /\ pc' = Set(pc, i, AfterObject(i))

\* The success branch with `total_records = count` for `total_records += count`.
ObjectLoadedOverwritesTotal(i, count) ==
    /\ results' = Set(results, i, Append(results[i], SuccessResult(s3_objects[i][pos[i]].key, count)))
    /\ total_records' = Set(total_records, i, count)
    /\ pos' = Set(pos, i, pos[i] + 1)
    /\ response' = response
    /\ pc' = Set(pc, i, AfterObject(i))

\* load_to_snowflake returned count: add it to the total, a "success" FileResult.
ObjectLoaded(i, count) ==
    /\ results' = Set(results, i, Append(results[i], SuccessResult(s3_objects[i][pos[i]].key, count)))
    /\ total_records' = Set(total_records, i, total_records[i] + count)
    /\ pos' = Set(pos, i, pos[i] + 1)
    /\ response' = response
    /\ pc' = Set(pc, i, AfterObject(i))

\* The outer `except Exception` answering with what was loaded so far.
HandlerFailedPartial(i, msg) ==
    /\ response' = Set(response, i, SummaryResponse(total_records[i], results[i]))
    /\ pc' = Set(pc, i, "finally")
    /\ UNCHANGED <<results, total_records, pos>>

\* The outer `except Exception`: a 500 with the message, then `finally`.
HandlerFailed(i, msg) ==
    /\ response' = Set(response, i, ErrorResponse(msg))
    /\ pc' = Set(pc, i, "finally")
    /\ UNCHANGED <<results, total_records, pos>>

\* parse_s3_event(event), and the early return when it finds nothing.
ParseEvent(i) ==
    /\ pc[i] = "start"
    /\ s3_objects' = Set(s3_objects, i, parse_s3_event(event[i]))
    /\ IF s3_objects'[i] = <<>>
       THEN /\ response' = Set(response, i, NoFilesResponse)
            /\ pc' = Set(pc, i, "done")
       ELSE /\ response' = response
            /\ pc' = Set(pc, i, "connect")
    /\ UNCHANGED <<s3_store, event, session, pos, records, total_records, results>>
    /\ UNCHANGED <<warehouse, history, decoder>>

\* session = get_snowpark_session(): a session, or an exception.
Connect(i) ==
    /\ pc[i] = "connect"
    /\ \/ /\ session' = Set(session, i, "open")
          /\ acquired' = Set(acquired, i, acquired[i] + 1)
          /\ pc' = Set(pc, i, "verify")
          /\ UNCHANGED <<response, results, total_records, pos>>
       \/ /\ HandlerFailed(i, "connect")
          /\ UNCHANGED <<session, acquired>>
    /\ UNCHANGED <<s3_store, event, s3_objects, records>>
    /\ UNCHANGED <<warehouse, closed, fetched, oplog, rows_before, decoder>>

\* SELECT CURRENT_USER() and SELECT CURRENT_ROLE(), then the loop's first object.
VerifyConnection(i) ==
    /\ pc[i] = "verify"
    /\ \/ /\ Logged(i, "verify", TRUE, 0)
          /\ pos' = Set(pos, i, 1)
          /\ pc' = Set(pc, i, "fetch")
          /\ UNCHANGED <<response, results, total_records>>
       \/ /\ Logged(i, "verify", FALSE, 0)
          /\ HandlerFailed(i, "verify")
    /\ UNCHANGED <<s3_store, event, s3_objects, session, records>>
    /\ UNCHANGED <<warehouse, acquired, closed, fetched, rows_before, decoder>>

\* read_json_from_s3(bucket, key): get_object, then the decoder on its text.
ReadJsonFromS3(i) ==
    /\ pc[i] = "fetch"
    /\ fetched' = Set(fetched, i, Append(fetched[i], pos[i]))
    /\ LET object == s3_store[s3_objects[i][pos[i]].key]
           d == DecodeRecords(object.body)
       IN  IF ~object.exists
           THEN /\ ObjectFailed(i, "NoSuchKey")
                /\ records' = records
           ELSE IF d.ok
           THEN /\ records' = Set(records, i, d.records)
                /\ pc' = Set(pc, i, "create")
                /\ UNCHANGED <<response, results, total_records, pos>>
           ELSE /\ ObjectFailed(i, "JSONDecodeError")
                /\ records' = records
    /\ UNCHANGED <<s3_store, event, s3_objects, session>>
    /\ UNCHANGED <<warehouse, acquired, closed, oplog, rows_before, decoder>>

\* ------------------------------------------------- load_to_snowflake's steps

\* write_pandas without overwrite: the rows join those the table holds.
write_pandas_append(table, df) == Table(table.rows \o df)

\* session.write_pandas(df, "RAW_DATA_STAGING", auto_create_table=True,
\* overwrite=True): the table holds exactly df afterwards.
write_pandas(table, df) == Table(df)

\* INSERT INTO RAW_DATA (source_file, payload) SELECT ... FROM RAW_DATA_STAGING.
insert_from_staging(raw, staging) == raw \o staging.rows

\* CREATE TABLE IF NOT EXISTS RAW_DATA (...).
CreateTable(i) ==
    /\ pc[i] = "create"
    /\ \/ /\ Logged(i, "create", TRUE, 0)
          /\ rawExists' = TRUE
          /\ pc' = Set(pc, i, "write")
          /\ UNCHANGED <<response, results, total_records, pos>>
       \/ /\ Logged(i, "create", FALSE, 0)
          /\ ObjectFailed(i, "create")
          /\ rawExists' = rawExists
    /\ rows_before' = Set(rows_before, i, Len(RAW_DATA))
    /\ UNCHANGED <<s3_store, event, s3_objects, session, records>>
    /\ UNCHANGED <<RAW_DATA, RAW_DATA_STAGING, acquired, closed, fetched, decoder>>

\* pd.DataFrame(...) and session.write_pandas(...).  A failed write is taken to
\* leave the staging table as it was.
WriteStaging(i) ==
    /\ pc[i] = "write"
    /\ \/ /\ Logged(i, "write", TRUE, 0)
          /\ RAW_DATA_STAGING' =
                write_pandas(RAW_DATA_STAGING, DataFrame(records[i], Source(s3_objects[i][pos[i]])))
          /\ pc' = Set(pc, i, "insert")
          /\ UNCHANGED <<response, results, total_records, pos>>
       \/ /\ Logged(i, "write", FALSE, 0)
          /\ ObjectFailed(i, "write")
          /\ RAW_DATA_STAGING' = RAW_DATA_STAGING
    /\ UNCHANGED <<s3_store, event, s3_objects, session, records>>
    /\ UNCHANGED <<rawExists, RAW_DATA, acquired, closed, fetched, rows_before, decoder>>

\* The INSERT ... SELECT, one statement: all of the staging rows or none.  It
\* succeeds only when both tables exist, and may fail whenever it is issued.
InsertFromStaging(i) ==
    /\ pc[i] = "insert"
    /\ \/ /\ rawExists /\ RAW_DATA_STAGING.exists
          /\ Logged(i, "insert", TRUE, Len(RAW_DATA_STAGING.rows))
          /\ RAW_DATA' = insert_from_staging(RAW_DATA, RAW_DATA_STAGING)
          /\ pc' = Set(pc, i, "drop")
          /\ UNCHANGED <<response, results, total_records, pos>>
       \/ /\ Logged(i, "insert", FALSE, 0)
          /\ ObjectFailed(i, "insert")
          /\ RAW_DATA' = RAW_DATA
    /\ UNCHANGED <<s3_store, event, s3_objects, session, records>>
    /\ UNCHANGED <<rawExists, RAW_DATA_STAGING, acquired, closed, fetched, rows_before, decoder>>

\* DROP TABLE IF EXISTS RAW_DATA_STAGING, then `return len(records)` into the
\* handler's success branch.
DropStaging(i) ==
    /\ pc[i] = "drop"
    /\ \/ /\ Logged(i, "drop", TRUE, 0)
          /\ RAW_DATA_STAGING' = Absent
          /\ ObjectLoaded(i, Len(records[i]))
       \/ /\ Logged(i, "drop", FALSE, 0)
          /\ ObjectFailed(i, "drop")
          /\ RAW_DATA_STAGING' = RAW_DATA_STAGING
    /\ UNCHANGED <<s3_store, event, s3_objects, session, records>>
    /\ UNCHANGED <<rawExists, RAW_DATA, acquired, closed, fetched, rows_before, decoder>>

\* ------------------------------------------------- the handler's way out

\* `return LambdaResponse(statusCode=200, ...)` after the loop.
Summarize(i) ==
    /\ pc[i] = "summary"
    /\ response' = Set(response, i, SummaryResponse(total_records[i], results[i]))
    /\ pc' = Set(pc, i, "finally")
    /\ UNCHANGED <<s3_store, event, s3_objects, session, pos, records, total_records, results>>
    /\ UNCHANGED <<warehouse, history, decoder>>

\* `finally` closing whatever session holds, set or not.
FinallyUnguarded(i) ==
    /\ pc[i] = "finally"
    /\ session' = Set(session, i, "closed")
    /\ closed' = Set(closed, i, closed[i] + 1)
    /\ response' = response
    /\ pc' = Set(pc, i, "done")
    /\ UNCHANGED <<s3_store, event, s3_objects, pos, records, total_records, results>>
    /\ UNCHANGED <<warehouse, acquired, fetched, oplog, rows_before, decoder>>

\* `finally: if session: session.close()`; a close() that raises replaces the
\* response by the exception.
Finally(i) ==
    /\ pc[i] = "finally"
    /\ IF session[i] = "open"
       THEN /\ session' = Set(session, i, "closed")
            /\ closed' = Set(closed, i, closed[i] + 1)
            /\ \/ response' = response
               \/ response' = Set(response, i, Raised)
       ELSE UNCHANGED <<session, closed, response>>
    /\ pc' = Set(pc, i, "done")
    /\ UNCHANGED <<s3_store, event, s3_objects, pos, records, total_records, results>>
    /\ UNCHANGED <<warehouse, acquired, fetched, oplog, rows_before, decoder>>

\* ------------------------------------------------------------ the decoder

NotDecoded == [ok |-> FALSE, path |-> "none", records |-> <<>>]

\* The decoding half of read_json_from_s3 on the text at hand.
Decode ==
    /\ decoded = NotDecoded
    /\ decoded' = DecodeRecords(content)
    /\ UNCHANGED <<content, local, warehouse, history>>

\* ----------------------------------------------------- the specifications

Idle == [i \in Invocations |-> "idle"]

InitLocal(store, events, pcs) ==
    /\ s3_store = store
    /\ event = events
    /\ pc = pcs
    /\ s3_objects = [i \in Invocations |-> <<>>]
    /\ session = [i \in Invocations |-> "None"]
    /\ pos = [i \in Invocations |-> 0]
    /\ records = [i \in Invocations |-> <<>>]
    /\ total_records = [i \in Invocations |-> 0]
    /\ results = [i \in Invocations |-> <<>>]
    /\ response = [i \in Invocations |-> NoResponse]

\* The warehouse before the invocation: RAW_DATA absent, empty or holding an
\* earlier load; RAW_DATA_STAGING absent or left behind by an earlier call.
InitWarehouse ==
    /\ rawExists \in BOOLEAN
    /\ RAW_DATA \in (IF rawExists THEN {<<>>, <<PriorRow>>} ELSE {<<>>})
    /\ RAW_DATA_STAGING \in {Absent, Table(<<PriorRow>>)}

InitHistory ==
    /\ acquired = [i \in Invocations |-> 0]
    /\ closed = [i \in Invocations |-> 0]
    /\ fetched = [i \in Invocations |-> <<>>]
    /\ oplog = [i \in Invocations |-> <<>>]
    /\ rows_before = [i \in Invocations |-> 0]

Step(i) ==
    \/ ParseEvent(i)
    \/ Connect(i)
    \/ VerifyConnection(i)
    \/ ReadJsonFromS3(i)
    \/ CreateTable(i)
    \/ WriteStaging(i)
    \/ InsertFromStaging(i)
    \/ DropStaging(i)
    \/ Summarize(i)
    \/ Finally(i)

Next == \E i \in Invocations : Step(i)

\* One invocation, of any event of at most MaxRecords records.
Init ==
    /\ \E e \in EventsUpTo(MaxRecords), store \in [Keys -> {NoSuchKey} \cup {Stored(t) : t \in SampleContents}] :
          \* a key the event does not name is never read: it is left empty
          /\ \A k \in Keys : store[k].exists => \E n \in 1..Len(e) : unquote_plus(e[n].key) = k
          /\ InitLocal(store, [i \in Invocations |-> IF i = 1 THEN e ELSE <<>>],
                       [i \in Invocations |-> IF i = 1 THEN "start" ELSE "idle"])
    /\ InitWarehouse
    /\ InitHistory
    /\ content = <<>>
    /\ decoded = NotDecoded

Spec == Init /\ [][Next]_vars

\* Two invocations at once, each notified of one object of its own: one record
\* under the first key, two records under the second.
ObjectA == [eventSource |-> "aws:s3", bucket |-> "landing", key |-> <<"a">>]

ObjectB == [eventSource |-> "aws:s3", bucket |-> "landing", key |-> <<"a", "%2B", "b">>]

InitConc ==
    /\ InitLocal([k \in Keys |-> IF k = <<"a">> THEN Stored(<<"o">>) ELSE Stored(<<"o", "\n", "o">>)],
                 [i \in Invocations |-> IF i = 1 THEN <<ObjectA>> ELSE <<ObjectB>>],
                 [i \in Invocations |-> "start"])
    /\ InitWarehouse
    /\ InitHistory
    /\ content = <<>>
    /\ decoded = NotDecoded

SpecConc == InitConc /\ [][Next]_vars

\* The decoder on every text of at most MaxLen symbols.
InitDecode ==
    /\ InitLocal([k \in Keys |-> NoSuchKey], [i \in Invocations |-> <<>>], Idle)
    /\ rawExists = FALSE
    /\ RAW_DATA = <<>>
    /\ RAW_DATA_STAGING = Absent
    /\ InitHistory
    /\ content \in TextsUpTo(MaxLen)
    /\ decoded = NotDecoded

NextDecode == Decode

SpecDecode == InitDecode /\ [][NextDecode]_vars

\* ---------------------------------------------------------- the properties

\* The operations the log holds for object k of invocation i.
OpsOf(i, k) == SelectSeq(oplog[i], LAMBDA e : e.obj = k /\ e.op # "verify")

RECURSIVE RowsAppended(_)
RowsAppended(log) == IF log = <<>> THEN 0 ELSE Head(log).rows + RowsAppended(Tail(log))

RECURSIVE SumSuccess(_)
SumSuccess(files) ==
    IF files = <<>> THEN 0
    ELSE (IF Head(files).status = "success" THEN Head(files).records ELSE 0)
         + SumSuccess(Tail(files))

RowsLabelled(source_file) ==
    Cardinality({k \in 1..Len(RAW_DATA) : RAW_DATA[k].source_file = source_file})

\* Object k of invocation i failed at some stage: its fetch or decode (no
\* warehouse operation follows a fetch), or a warehouse operation.
StageFailed(i, k) ==
    \/ k \in 1..Len(results[i]) /\ OpsOf(i, k) = <<>>
    \/ \E n \in 1..Len(oplog[i]) : oplog[i][n].obj = k /\ oplog[i][n].op # "verify" /\ ~oplog[i][n].ok

\* C1: the session is acquired at most once per invocation; it is never closed
\* more often than it was acquired, and when the handler has finished it was
\* closed exactly once if the acquisition completed and not at all otherwise.
C1_SessionReleasedOnce ==
    \A i \in Invocations :
        /\ acquired[i] <= 1
        /\ closed[i] <= acquired[i]
        /\ (session[i] = "None") = (acquired[i] = 0)
        /\ pc[i] = "done" => closed[i] = acquired[i]

\* C1's case: the verification queries failed after the session was acquired,
\* and the handler ended with a 500 and the session closed once.
C1_Witness ==
    /\ pc[1] = "done"
    /\ response[1] = ErrorResponse("verify")
    /\ acquired[1] = 1
    /\ closed[1] = 1

\* C2: once the session is established each object is attempted exactly once in
\* input order; a failure at any stage of an object is recorded as a "failed"
\* FileResult with its message and the later objects are still attempted; the
\* 200 summary holds one FileResult per object, in input order.
C2_PerObjectIsolation ==
    \A i \in Invocations :
        /\ fetched[i] = [k \in 1..Len(fetched[i]) |-> k]
        /\ Len(fetched[i]) <= Len(s3_objects[i])
        /\ Len(results[i]) <= Len(fetched[i])
        /\ \A k \in 1..Len(results[i]) :
             /\ results[i][k].file = s3_objects[i][k].key
             /\ results[i][k].status \in {"success", "failed"}
             /\ results[i][k].status = "failed" <=> StageFailed(i, k)
             /\ results[i][k].status = "failed" => "error" \in DOMAIN results[i][k]
        /\ pc[i] = "fetch" => Len(results[i]) = pos[i] - 1 /\ Len(fetched[i]) = pos[i] - 1
        /\ (pc[i] = "done" /\ \E n \in 1..Len(oplog[i]) : oplog[i][n].op = "verify" /\ oplog[i][n].ok)
             => /\ Len(fetched[i]) = Len(s3_objects[i])
                /\ Len(results[i]) = Len(s3_objects[i])
                /\ response[i] \in {SummaryResponse(total_records[i], results[i]), Raised}
        /\ IsSummary(response[i])
             => /\ response[i].body.files = results[i]
                /\ Len(results[i]) = Len(s3_objects[i])

\* C2's case: the first of two objects failed, the second was still loaded, and
\* the summary lists both in input order.
C2_Witness ==
    /\ pc[1] = "done"
    /\ IsSummary(response[1])
    /\ Len(response[1].body.files) = 2
    /\ response[1].body.files[1].status = "failed"
    /\ response[1].body.files[2].status = "success"
    /\ response[1].body.files[1].file # response[1].body.files[2].file

\* C3: when the acquisition of the session fails the handler answers 500 with a
\* body holding only "error"; nothing was fetched, no warehouse operation was
\* issued and no FileResult exists.
C3_AcquisitionFailureIsFatal ==
    \A i \in Invocations :
        (pc[i] \in {"finally", "done"} /\ s3_objects[i] # <<>> /\ acquired[i] = 0)
            => /\ response[i].statusCode = 500
               /\ DOMAIN response[i].body = {"error"}
               /\ fetched[i] = <<>>
               /\ oplog[i] = <<>>
               /\ results[i] = <<>>
               /\ closed[i] = 0

\* C3's case: an event with two objects, and the acquisition failed.
C3_Witness ==
    /\ pc[1] = "done"
    /\ Len(s3_objects[1]) = 2
    /\ acquired[1] = 0
    /\ response[1] = ErrorResponse("connect")

\* C4: for every object processed, a "success" FileResult reports as many
\* records as rows were appended to RAW_DATA for it, and a "failed" FileResult
\* means no row was appended for it.
C4_FailedMeansNothingCommitted ==
    \A i \in Invocations : \A k \in 1..Len(results[i]) :
        /\ results[i][k].status = "success" => RowsAppended(OpsOf(i, k)) = results[i][k].records
        /\ results[i][k].status = "failed" => RowsAppended(OpsOf(i, k)) = 0

\* C5: a load_to_snowflake call whose operations all succeed returns N = the
\* number of records and leaves RAW_DATA with exactly N more rows than at its
\* entry, the new rows being the records labelled with the call's source_file,
\* whatever RAW_DATA and RAW_DATA_STAGING held before.
C5_LoadAppendsExactlyN ==
    \A i \in Invocations :
        LET n == Len(records[i])
            k == Len(results[i])
        IN  /\ pc[i] = "drop"
                => /\ Len(RAW_DATA) = rows_before[i] + n
                   /\ SubSeq(RAW_DATA, rows_before[i] + 1, Len(RAW_DATA))
                        = DataFrame(records[i], Source(s3_objects[i][pos[i]]))
            /\ (pc[i] \in {"fetch", "summary", "finally", "done"} /\ k > 0 /\ results[i][k].status = "success")
                => /\ results[i][k].records = n
                   /\ Len(RAW_DATA) = rows_before[i] + n
                   /\ SubSeq(RAW_DATA, rows_before[i] + 1, Len(RAW_DATA))
                        = DataFrame(records[i], Source(s3_objects[i][k]))

\* C5's case: the first object's insert failed and left its staging table
\* behind; the second object's call then loaded its two records into a
\* RAW_DATA that already held a row.
C5_Witness ==
    /\ pc[1] = "done"
    /\ Len(results[1]) = 2
    /\ results[1][1] = FailedResult(<<"a">>, "insert")
    /\ results[1][2] = SuccessResult(<<"a", "+", "b">>, 2)
    /\ Len(RAW_DATA) = 3

\* C6: in every 200 summary total_records is the sum of the records of the
\* "success" FileResults.
C6_TotalCountsSuccessesOnly ==
    \A i \in Invocations :
        IsSummary(response[i])
            => response[i].body.total_records = SumSuccess(response[i].body.files)

\* C6's case: a summary with a failed object and a loaded one.
C6_Witness ==
    /\ IsSummary(response[1])
    /\ \E k \in 1..Len(response[1].body.files) : response[1].body.files[k].status = "failed"
    /\ \E k \in 1..Len(response[1].body.files) :
          /\ response[1].body.files[k].status = "success"
          /\ response[1].body.files[k].records = 2
    /\ response[1].body.total_records = 2

\* A record parse_s3_event has no use for: of another source, or without a
\* bucket name, or without a key.
Unusable(record) ==
    \/ record.eventSource # "aws:s3"
    \/ record.bucket \in {None, ""}
    \/ record.key = <<>>

\* C7: for an event all of whose records are unusable, and for one without
\* records, parse_s3_event returns the empty list and the handler ends at once
\* with the 200 "No files to process" response: no session, no fetch, no
\* warehouse operation.
C7_NothingToDo ==
    \A i \in Invocations :
        (\A k \in 1..Len(event[i]) : Unusable(event[i][k]))
            => /\ parse_s3_event(event[i]) = <<>>
               /\ pc[i] \in {"idle", "start", "done"}
               /\ pc[i] = "done" => response[i] = NoFilesResponse
               /\ session[i] = "None"
               /\ acquired[i] = 0
               /\ fetched[i] = <<>>
               /\ oplog[i] = <<>>
               /\ results[i] = <<>>

\* C7's case: an event of two records, one of another source and one without
\* a bucket name, answered with "No files to process".
C7_Witness ==
    /\ pc[1] = "done"
    /\ Len(event[1]) = 2
    /\ event[1][1].eventSource = "aws:sns"
    /\ event[1][2].bucket = None
    /\ response[1] = NoFilesResponse
    /\ acquired[1] = 0

\* JSON's grammar over Symbols, as sets of texts: whitespace, values and the
\* element lists of arrays of at most n symbols.
RECURSIVE WsUpTo(_)
WsUpTo(n) ==
    IF n < 0 THEN {}
    ELSE IF n = 0 THEN {<<>>}
    ELSE LET shorter == WsUpTo(n - 1)
         IN  shorter \cup {Append(w, c) : w \in shorter, c \in Whitespace}

RECURSIVE ValuesUpTo(_)
RECURSIVE ElementsUpTo(_)
\* middle with whitespace before and after it, at most room symbols in all.
Padded(middle, room) ==
    UNION {{w \o middle \o z : z \in WsUpTo(room - Len(middle) - Len(w))} :
             w \in WsUpTo(room - Len(middle))}

ValuesUpTo(n) ==
    IF n <= 0 THEN {}
    ELSE {<<"o">>}
         \cup {<<"[">> \o w \o <<"]">> : w \in WsUpTo(n - 2)}
         \cup UNION {{<<"[">> \o p \o <<"]">> : p \in Padded(e, n - 2)} : e \in ElementsUpTo(n - 2)}

ElementsUpTo(n) ==
    IF n <= 0 THEN {}
    ELSE ValuesUpTo(n)
         \cup UNION {UNION {{e \o p \o v : p \in Padded(<<",">>, n - Len(e) - Len(v))} :
                              v \in ValuesUpTo(n - Len(e) - 1)} :
                      e \in ElementsUpTo(n - 2)}

\* The texts of at most MaxLen symbols that are one JSON document.
JsonDocuments == UNION {Padded(v, MaxLen) : v \in ValuesUpTo(MaxLen)}

\* C8: the decoder splits a text into lines only when the text is not one JSON
\* document; a text that is one yields the parsed array as it is, or the single
\* value wrapped in a list.  On the line path every non-blank line is parsed:
\* the records are the lines' values, and one line that does not parse fails
\* the whole file with no records returned.
C8_DocumentFirst ==
    decoded # NotDecoded =>
        /\ decoded.path \in {"document", "lines"}
        /\ decoded.path = "lines" => content \notin JsonDocuments
        /\ content \in JsonDocuments =>
             /\ decoded.ok
             /\ decoded.path = "document"
             /\ LET v == json_loads(content).val
                IN  decoded.records = IF v.t = "arr" THEN v.items ELSE <<v>>
        /\ decoded.path = "lines" =>
             LET lines == NonBlankLines(content)
             IN  /\ decoded.ok <=> \A k \in 1..Len(lines) : lines[k] \in JsonDocuments
                 /\ decoded.ok => /\ Len(decoded.records) = Len(lines)
                                  /\ \A k \in 1..Len(lines) :
                                        decoded.records[k] = json_loads(lines[k]).val
                 /\ ~decoded.ok => decoded.records = <<>>

\* C8's case: an array with a line break inside it is decoded as one document.
C8_Witness ==
    /\ content = <<"[", "o", "\n", "]">>
    /\ decoded = [ok |-> TRUE, path |-> "document", records |-> <<JObject>>]

\* C9: every finished load_to_snowflake call that wrote RAW_DATA_STAGING also
\* issued the drop of it.
C9_StagingAlwaysDropped ==
    \A i \in Invocations : \A k \in 1..Len(results[i]) :
        (\E n \in 1..Len(oplog[i]) :
            oplog[i][n].obj = k /\ oplog[i][n].op = "write" /\ oplog[i][n].ok)
        => \E n \in 1..Len(oplog[i]) : oplog[i][n].obj = k /\ oplog[i][n].op = "drop"

\* C10: with two invocations interleaved, every "success" FileResult reports as
\* many records as RAW_DATA holds rows labelled with that object's source_file.
C10_ConcurrentLoadsIndependent ==
    \A i \in Invocations : \A k \in 1..Len(results[i]) :
        results[i][k].status = "success"
            => results[i][k].records = RowsLabelled(Source(s3_objects[i][k]))

====
